---- MODULE Spec2Model ----
(***************************************************************************)
(* Breakpoint-graph engine of the Bioinformatics repository:               *)
(*   src/utils/genome_graph.py          codec, graph builder, reconstructor *)
(*                                       and two-break operator             *)
(*   src/genome_rearrangement/fragile_regions.py                            *)
(*                                       validation and GenomeAnalyzer      *)
(* Python lists and tuples are sequences; Python indices are 0-based, so   *)
(* the source's x[k] is x[k + 1] here.                                      *)
(***************************************************************************)
EXTENDS Integers, Sequences, FiniteSets, TLC

\* ------------------------------------------------------------------ bounds
\* Gene magnitudes of the generated genomes are 1..MaxGene.
MaxGene == 2
\* The node arguments of a two-break, and the nodes of the free-standing edge
\* sequences, are 1..MaxNode.
MaxNode == 4

\* The generated sequences of an alignment hold at most MaxSeqLen characters.
MaxSeqLen == 3
\* The annealing loop is followed for MaxIterations iterations, on sequences of
\* at most MaxAnnealLen characters.
MaxIterations == 2
MaxAnnealLen == 2

\* A generated chromosome or genome holds at most MaxLen genes: one more than there
\* are magnitudes, so that repeated genes occur beside every magnitude.
MaxLen == MaxGene + 1
\* A generated genome holds at most MaxChroms chromosomes.
MaxChroms == MaxGene

\* kwargs.get(...) of a keyword argument that was not passed (Python's None):
\* a value outside the nodes.
None == -1

\* ------------------------------------------------------- Python arithmetic
\* int(x / 2): true division followed by truncation toward zero.
IntHalf(x) ==
    IF x >= 0 THEN x \div 2 ELSE -((-x) \div 2)

\* abs(x)
Abs(x) ==
    IF x >= 0 THEN x ELSE -x

\* ------------------------------------------------------------ genome_graph
\* GeneNodes with the reverse orientation forgotten.
GeneNodesForwardOnly(gene) ==
    <<2 * Abs(gene) - 1, 2 * Abs(gene)>>

\* GeneNodes with the nodes numbered from 0: gene g on 2|g| - 2 and 2|g| - 1.
GeneNodesZeroBased(gene) ==
    IF gene > 0
    THEN <<2 * gene - 2, 2 * gene - 1>>
    ELSE <<-2 * gene - 1, -2 * gene - 2>>

\* The node pair one loop iteration of chromosome_to_cycle appends for a gene.
GeneNodes(gene) ==
    IF gene > 0
    THEN <<2 * gene - 1, 2 * gene>>
    ELSE <<-2 * gene, -2 * gene - 1>>

RECURSIVE CycleFrom(_, _, _)
\* The loop of chromosome_to_cycle from index i (0-based) with `nodes` built so far.
CycleFrom(chromosome, i, nodes) ==
    IF i >= Len(chromosome)
    THEN nodes
    ELSE CycleFrom(chromosome, i + 1, nodes \o GeneNodes(chromosome[i + 1]))

chromosome_to_cycle(chromosome) ==
    CycleFrom(chromosome, 0, <<>>)

\* The gene one loop iteration of cycle_to_chromosome appends for pair i (0-based).
PairGene(nodes, i) ==
    IF nodes[2 * i + 1] < nodes[2 * i + 2]
    THEN IntHalf(nodes[2 * i + 2])
    ELSE IntHalf(-nodes[2 * i + 1])

RECURSIVE ChromosomeFrom(_, _, _)
\* The loop of cycle_to_chromosome over range(0, int(len(nodes) / 2)).
ChromosomeFrom(nodes, i, chromosome) ==
    IF i >= IntHalf(Len(nodes))
    THEN chromosome
    ELSE ChromosomeFrom(nodes, i + 1, Append(chromosome, PairGene(nodes, i)))

cycle_to_chromosome(nodes) ==
    ChromosomeFrom(nodes, 0, <<>>)

\* GeneEdge with the last gene closed on the second node of the cycle instead of
\* the first.
GeneEdgeWrapByOne(nodes, j) ==
    <<nodes[2 * j + 1 + 1], nodes[((2 * j + 2) % (Len(nodes) - 1)) + 1]>>

\* GeneEdge leaving from the first node of its gene instead of the second.
GeneEdgeFromGeneStart(nodes, j) ==
    <<nodes[2 * j + 1], nodes[((2 * j + 2) % Len(nodes)) + 1]>>

\* The edge colored_edges emits for gene index j (0-based) of a chromosome
\* whose cycle is `nodes`.
GeneEdge(nodes, j) ==
    <<nodes[2 * j + 1 + 1], nodes[((2 * j + 2) % Len(nodes)) + 1]>>

RECURSIVE ChromosomeEdgesOpen(_, _, _, _)
\* ChromosomeEdges over range(len(chromosome) - 1): the closing edge is left out.
ChromosomeEdgesOpen(chromosome, nodes, j, edges) ==
    IF j >= Len(chromosome) - 1
    THEN edges
    ELSE ChromosomeEdgesOpen(chromosome, nodes, j + 1, Append(edges, GeneEdge(nodes, j)))

RECURSIVE ChromosomeEdges(_, _, _, _)
\* The inner loop of colored_edges over range(len(chromosome)).
ChromosomeEdges(chromosome, nodes, j, edges) ==
    IF j >= Len(chromosome)
    THEN edges
    ELSE ChromosomeEdges(chromosome, nodes, j + 1, Append(edges, GeneEdge(nodes, j)))

RECURSIVE EdgesFromSharedCycle(_, _, _)
\* EdgesFrom with every chromosome's edges read from the cycle of the first
\* chromosome of the genome instead of its own.
EdgesFromSharedCycle(genome, k, edges) ==
    IF k >= Len(genome)
    THEN edges
    ELSE EdgesFromSharedCycle(genome, k + 1,
             ChromosomeEdges(genome[k + 1],
                 chromosome_to_cycle(genome[1] \o genome[k + 1]), 0, edges))

RECURSIVE EdgesFrom(_, _, _)
\* The outer loop of colored_edges from chromosome index k (0-based).
EdgesFrom(genome, k, edges) ==
    IF k >= Len(genome)
    THEN edges
    ELSE EdgesFrom(genome, k + 1,
             ChromosomeEdges(genome[k + 1], chromosome_to_cycle(genome[k + 1]), 0, edges))

colored_edges(genome) ==
    EdgesFrom(genome, 0, <<>>)

\* end = init - 1 if init is even else init + 1
EndOf(init) ==
    IF init % 2 = 0 THEN init - 1 ELSE init + 1

\* InitGene with the sign of a reverse gene dropped.
InitGeneUnsigned(init) ==
    IF init % 2 = 0 THEN IntHalf(init) ELSE IntHalf(init + 1)

\* The gene graph_to_genome appends for the node init.
InitGene(init) ==
    IF init % 2 = 0 THEN IntHalf(init) ELSE IntHalf(-(init + 1))

\* The locals of graph_to_genome when its loop is entered (graph non-empty).
\* pc is "loop" while the while-loop runs, "closed" after the break that follows
\* a closed chromosome, "exhausted" after the break taken with a chromosome open.
WalkStart(graph) ==
    [genome |-> <<>>, chromosome |-> <<>>, i |-> 0,
     init |-> graph[1][1], end |-> EndOf(graph[1][1]), pc |-> "loop"]

\* WalkStep with the cursor left in place when a chromosome closes before the
\* last edge.
WalkStepHoldsCursor(graph, w) ==
    LET chromosome == Append(w.chromosome, InitGene(w.init))
        next_node == graph[w.i + 1][2]
    IN IF next_node = w.end
       THEN IF w.i = Len(graph) - 1
            THEN [w EXCEPT !.genome = Append(w.genome, chromosome),
                           !.chromosome = chromosome,
                           !.pc = "closed"]
            ELSE [genome |-> Append(w.genome, chromosome),
                  chromosome |-> <<>>,
                  i |-> w.i,
                  init |-> graph[w.i + 2][1],
                  end |-> EndOf(graph[w.i + 2][1]),
                  pc |-> "loop"]
       ELSE IF w.i + 1 < Len(graph)
            THEN [w EXCEPT !.chromosome = chromosome,
                           !.i = w.i + 1,
                           !.init = graph[w.i + 2][1]]
            ELSE [w EXCEPT !.chromosome = chromosome,
                           !.i = w.i + 1,
                           !.pc = "exhausted"]

\* One iteration of the while-loop of graph_to_genome.
WalkStep(graph, w) ==
    LET chromosome == Append(w.chromosome, InitGene(w.init))
        next_node == graph[w.i + 1][2]
    IN IF next_node = w.end
       THEN IF w.i = Len(graph) - 1
            THEN [w EXCEPT !.genome = Append(w.genome, chromosome),
                           !.chromosome = chromosome,
                           !.pc = "closed"]
            ELSE [genome |-> Append(w.genome, chromosome),
                  chromosome |-> <<>>,
                  i |-> w.i + 1,
                  init |-> graph[w.i + 2][1],
                  end |-> EndOf(graph[w.i + 2][1]),
                  pc |-> "loop"]
       ELSE IF w.i + 1 < Len(graph)
            THEN [w EXCEPT !.chromosome = chromosome,
                           !.i = w.i + 1,
                           !.init = graph[w.i + 2][1]]
            ELSE [w EXCEPT !.chromosome = chromosome,
                           !.i = w.i + 1,
                           !.pc = "exhausted"]

RECURSIVE WalkRun(_, _)
\* The while-loop of graph_to_genome run to its break.
WalkRun(graph, w) ==
    IF w.pc # "loop" THEN w ELSE WalkRun(graph, WalkStep(graph, w))

\* The locals of graph_to_genome at its return statement.
GraphWalk(graph) ==
    IF graph = <<>>
    THEN [genome |-> <<>>, chromosome |-> <<>>, i |-> 0,
          init |-> 0, end |-> 0, pc |-> "empty"]
    ELSE WalkRun(graph, WalkStart(graph))

graph_to_genome(graph) ==
    GraphWalk(graph).genome

\* RewriteEdge with the third rule joining c to b instead of a.
RewriteEdgeWrongEnd(edge, a, b, c, d) ==
    IF edge = <<a, b>> THEN <<a, c>>
    ELSE IF edge = <<b, a>> THEN <<b, d>>
    ELSE IF edge = <<c, d>> THEN <<c, b>>
    ELSE IF edge = <<d, c>> THEN <<d, b>>
    ELSE edge

\* RewriteEdge with the rule for (b,a) tried before the rule for (a,b).
RewriteEdgeReversedFirst(edge, a, b, c, d) ==
    IF edge = <<b, a>> THEN <<b, d>>
    ELSE IF edge = <<a, b>> THEN <<a, c>>
    ELSE IF edge = <<c, d>> THEN <<c, a>>
    ELSE IF edge = <<d, c>> THEN <<d, b>>
    ELSE edge

\* The edge two_break_genome_graph appends for one edge of the input.
\* RewriteEdge with the first rule putting c in front of a.
RewriteEdgeNewFirst(edge, a, b, c, d) ==
    IF edge = <<a, b>> THEN <<c, a>>
    ELSE IF edge = <<b, a>> THEN <<b, d>>
    ELSE IF edge = <<c, d>> THEN <<c, a>>
    ELSE IF edge = <<d, c>> THEN <<d, b>>
    ELSE edge

RewriteEdge(edge, a, b, c, d) ==
    IF edge = <<a, b>> THEN <<a, c>>
    ELSE IF edge = <<b, a>> THEN <<b, d>>
    ELSE IF edge = <<c, d>> THEN <<c, a>>
    ELSE IF edge = <<d, c>> THEN <<d, b>>
    ELSE edge

RECURSIVE RewriteFrom(_, _, _, _, _, _, _)
\* The loop of two_break_genome_graph from edge index k (0-based).
RewriteFrom(genome_graph, a, b, c, d, k, modified_graph) ==
    IF k >= Len(genome_graph)
    THEN modified_graph
    ELSE RewriteFrom(genome_graph, a, b, c, d, k + 1,
             Append(modified_graph, RewriteEdge(genome_graph[k + 1], a, b, c, d)))

\* two_break_genome_graph without its final else: only rewritten edges are appended.
two_break_rewritten_only(genome_graph, a, b, c, d) ==
    SelectSeq(RewriteFrom(genome_graph, a, b, c, d, 0, <<>>),
              LAMBDA edge : edge \in {<<a, c>>, <<b, d>>, <<c, a>>, <<d, b>>})

two_break_genome_graph(genome_graph, a, b, c, d) ==
    RewriteFrom(genome_graph, a, b, c, d, 0, <<>>)

two_break_on_genome(genome, a, b, c, d) ==
    graph_to_genome(two_break_genome_graph(colored_edges(genome), a, b, c, d))


\* -------------------------------------------------------- fragile_regions
RECURSIVE FlattenFrom(_, _, _)
\* all_genes of validate_genome: the genes of the genome in scan order.
FlattenFrom(genome, k, all_genes) ==
    IF k >= Len(genome)
    THEN all_genes
    ELSE FlattenFrom(genome, k + 1, all_genes \o genome[k + 1])

RECURSIVE DuplicateErrorsSigned(_, _, _)
\* DuplicateErrors comparing the genes themselves instead of their magnitudes.
DuplicateErrorsSigned(all_genes, k, errors) ==
    IF k >= Len(all_genes)
    THEN errors
    ELSE DuplicateErrorsSigned(all_genes, k + 1,
             IF \E m \in 1..k : all_genes[m] = all_genes[k + 1]
             THEN Append(errors, [kind |-> "Duplicate gene", gene |-> Abs(all_genes[k + 1])])
             ELSE errors)

RECURSIVE DuplicateErrors(_, _, _)
\* The duplicate scan of validate_genome: one error for each gene whose magnitude
\* is already among the genes scanned before it.
DuplicateErrors(all_genes, k, errors) ==
    IF k >= Len(all_genes)
    THEN errors
    ELSE DuplicateErrors(all_genes, k + 1,
             IF \E m \in 1..k : Abs(all_genes[m]) = Abs(all_genes[k + 1])
             THEN Append(errors, [kind |-> "Duplicate gene", gene |-> Abs(all_genes[k + 1])])
             ELSE errors)

RECURSIVE ZeroErrors(_, _, _)
\* The zero scan of validate_genome: one error for each gene equal to 0.
ZeroErrors(all_genes, k, errors) ==
    IF k >= Len(all_genes)
    THEN errors
    ELSE ZeroErrors(all_genes, k + 1,
             IF all_genes[k + 1] = 0
             THEN Append(errors, [kind |-> "Gene with value 0", gene |-> 0])
             ELSE errors)

validate_genome(genome) ==
    IF genome = <<>>
    THEN [valid |-> FALSE,
          errors |-> <<[kind |-> "Empty genome", gene |-> 0]>>,
          warnings |-> <<>>]
    ELSE LET all_genes == FlattenFrom(genome, 0, <<>>)
             errors == ZeroErrors(all_genes, 0, DuplicateErrors(all_genes, 0, <<>>))
         IN [valid |-> Len(errors) = 0,
             errors |-> errors,
             warnings |-> SelectSeq([k \in 1..Len(genome) |-> k - 1],
                                    LAMBDA k : genome[k + 1] = <<>>),
             total_genes |-> Len(all_genes),
             unique_genes |-> Cardinality({Abs(all_genes[k]) : k \in 1..Len(all_genes)})]

\* perform_rearrangement: what it raises ("no" when it returns) and what it returns.
perform_rearrangement(genome, rearrangement_type, a, b, c, d) ==
    IF rearrangement_type = "two_break"
    THEN IF None \in {a, b, c, d}
         THEN [raised |-> "ValueError: requires parameters a, b, c, d"]
         ELSE LET rearranged_genome == two_break_on_genome(genome, a, b, c, d)
              IN [raised |-> "no",
                  rearranged_genome |-> rearranged_genome,
                  rearrangement_info |->
                      [type |-> "two_break",
                       parameters |-> [a |-> a, b |-> b, c |-> c, d |-> d],
                       original_edges |-> colored_edges(genome),
                       new_edges |-> colored_edges(rearranged_genome)]]
    ELSE [raised |-> "ValueError: Unsupported rearrangement type"]

RECURSIVE FragileFromOneBased(_, _, _)
\* FragileFrom with the chromosomes numbered from 1.
FragileFromOneBased(genome, i, fragile_regions) ==
    IF i >= Len(genome)
    THEN fragile_regions
    ELSE FragileFromOneBased(genome, i + 1,
             IF Len(genome[i + 1]) % 2 = 1
             THEN Append(fragile_regions,
                      [chromosome |-> i + 1,
                       length |-> Len(genome[i + 1]),
                       genes |-> genome[i + 1],
                       fragility_score |-> [num |-> 1, den |-> Len(genome[i + 1])]])
             ELSE fragile_regions)

\* The chromosome loop of analyze_fragile_regions from index i (0-based): one entry
\* for each chromosome with chromosome_length % 2 == 1. The score 1.0 / length is
\* kept as the fraction num / den.
RECURSIVE FragileFrom(_, _, _)
FragileFrom(genome, i, fragile_regions) ==
    IF i >= Len(genome)
    THEN fragile_regions
    ELSE FragileFrom(genome, i + 1,
             IF Len(genome[i + 1]) % 2 = 1
             THEN Append(fragile_regions,
                      [chromosome |-> i,
                       length |-> Len(genome[i + 1]),
                       genes |-> genome[i + 1],
                       fragility_score |-> [num |-> 1, den |-> Len(genome[i + 1])]])
             ELSE fragile_regions)

\* analyze_fragile_regions(genome): for an empty genome the early return, whose
\* statistics is the empty dict and which has no edges; avg_chromosome_length is
\* kept as the fraction num / den.
analyze_fragile_regions(genome) ==
    IF genome = <<>>
    THEN [fragile_regions |-> <<>>, statistics |-> [key \in {} |-> 0]]
    ELSE LET edges == colored_edges(genome)
             total_genes == Len(FlattenFrom(genome, 0, <<>>))
             fragile_regions == FragileFrom(genome, 0, <<>>)
         IN [fragile_regions |-> fragile_regions,
             statistics |->
                 [total_genes |-> total_genes,
                  num_chromosomes |-> Len(genome),
                  num_edges |-> Len(edges),
                  avg_chromosome_length |-> [num |-> total_genes, den |-> Len(genome)],
                  fragile_regions_count |-> Len(fragile_regions)],
             edges |-> edges]

\* set(edges): the edges of an edge tuple without order or repetition.
EdgeSet(edges) ==
    {edges[k] : k \in 1..Len(edges)}

\* max(x, y)
Max(x, y) ==
    IF x >= y THEN x ELSE y

\* compare_genomes with the ratio taken over the lengths of the edge tuples
\* instead of the sizes of the edge sets.
compare_genomes_by_length(genome1, genome2) ==
    LET edges1 == colored_edges(genome1)
        edges2 == colored_edges(genome2)
        unique_to_genome1 == EdgeSet(edges1) \ EdgeSet(edges2)
        unique_to_genome2 == EdgeSet(edges2) \ EdgeSet(edges1)
        common_edges == EdgeSet(edges1) \cap EdgeSet(edges2)
        den == Max(Len(edges1), Len(edges2))
    IN IF den = 0
       THEN [raised |-> "ZeroDivisionError: division by zero"]
       ELSE [raised |-> "no",
             genome1_unique_edges |-> unique_to_genome1,
             genome2_unique_edges |-> unique_to_genome2,
             common_edges |-> common_edges,
             difference_count |->
                 Cardinality(unique_to_genome1) + Cardinality(unique_to_genome2),
             similarity_ratio |-> [num |-> Cardinality(common_edges), den |-> den]]

\* compare_genomes(genome1, genome2): what it raises ("no" when it returns) and
\* what it returns. The lists made from sets are kept as sets (list(set) has no
\* defined order); the ratio len / max is kept as the fraction num / den, and a
\* denominator of 0 is Python's ZeroDivisionError.
compare_genomes(genome1, genome2) ==
    LET edges1_set == EdgeSet(colored_edges(genome1))
        edges2_set == EdgeSet(colored_edges(genome2))
        unique_to_genome1 == edges1_set \ edges2_set
        unique_to_genome2 == edges2_set \ edges1_set
        common_edges == edges1_set \cap edges2_set
        den == Max(Cardinality(edges1_set), Cardinality(edges2_set))
    IN IF den = 0
       THEN [raised |-> "ZeroDivisionError: division by zero"]
       ELSE [raised |-> "no",
             genome1_unique_edges |-> unique_to_genome1,
             genome2_unique_edges |-> unique_to_genome2,
             common_edges |-> common_edges,
             difference_count |->
                 Cardinality(unique_to_genome1) + Cardinality(unique_to_genome2),
             similarity_ratio |-> [num |-> Cardinality(common_edges), den |-> den]]

\* ------------------------------------------------ msa_simulated_annealing
\* Strings are sequences of one-character strings; s[k] of the source is s[k + 1].
\* A function that draws from random is the set of the results its draws can give.
Gap == "-"

\* The result of a move whose random.randrange(0) raised ValueError.
Failed == <<"ValueError">>

\* min(x, y)
Min(x, y) ==
    IF x <= y THEN x ELSE y

\* The least element of a non-empty set of integers.
Least(S) ==
    CHOOSE x \in S : \A y \in S : x <= y

\* sequence[lo:hi] for 0 <= lo: the end is clamped to the length.
Slice(sequence, lo, hi) ==
    SubSeq(sequence, lo + 1, Min(hi, Len(sequence)))

\* '-' * gap_count
Gaps(gap_count) ==
    [k \in 1..gap_count |-> Gap]

RECURSIVE Pads(_, _)
\* The while-loop of initial_state on one sequence: a gap is inserted at a random
\* position 0..len(new_sequence) until the length is max_length.
Pads(new_sequence, max_length) ==
    IF Len(new_sequence) = max_length
    THEN {new_sequence}
    ELSE UNION {Pads(Slice(new_sequence, 0, random_position) \o <<Gap>> \o
                         Slice(new_sequence, random_position, Len(new_sequence)),
                     max_length) : random_position \in 0..Len(new_sequence)}

\* max(length_list)
MaxLength(sequence_list) ==
    CHOOSE n \in {Len(sequence_list[k]) : k \in 1..Len(sequence_list)} :
        \A k \in 1..Len(sequence_list) : Len(sequence_list[k]) <= n

\* initial_state(sequence_list): the alignments its draws can give.
initial_state(sequence_list) ==
    IF sequence_list = <<>>
    THEN {<<>>}
    ELSE LET max_length == MaxLength(sequence_list)
             padded == [i \in 1..Len(sequence_list) |-> Pads(sequence_list[i], max_length)]
         IN {aligned_sequences \in [1..Len(sequence_list) -> UNION {padded[i] : i \in 1..Len(sequence_list)}] :
                \A i \in 1..Len(sequence_list) : aligned_sequences[i] \in padded[i]}

\* find_score((seq_one, seq_two)): the positions of seq_one where the two differ.
find_score(seq_one, seq_two) ==
    Cardinality({i \in 0..(Len(seq_one) - 1) : seq_one[i + 1] # seq_two[i + 1]})

RECURSIVE ScoreFrom(_, _, _, _)
\* The loop of score_of_alignment over combinations(sequence_list, 2), taken as
\* the pairs (i, j), i < j (1-based), in order.
ScoreFrom(sequence_list, i, j, total_score) ==
    IF i >= Len(sequence_list)
    THEN total_score
    ELSE IF j > Len(sequence_list)
         THEN ScoreFrom(sequence_list, i + 1, i + 2, total_score)
         ELSE ScoreFrom(sequence_list, i, j + 1,
                  total_score + find_score(sequence_list[i], sequence_list[j]))

score_of_alignment(sequence_list) ==
    ScoreFrom(sequence_list, 1, 2, 0)

\* The positions next(gap_iterator).end() - 1 of re.finditer(r'^-|[^-]-', sequence):
\* the first position of every run of gaps.
RunStarts(sequence) ==
    {i \in 0..(Len(sequence) - 1) :
        sequence[i + 1] = Gap /\ (i = 0 \/ sequence[i] # Gap)}

\* temp_pos after the while-loop that begins at `start`: the first position from
\* there that is the end of the sequence or holds no gap.
RunEnd(sequence, start) ==
    Least({temp_pos \in start..Len(sequence) :
              temp_pos = Len(sequence) \/ sequence[temp_pos + 1] # Gap})

\* output_list after output_list[start:start + gap_count] = ''
RemoveGaps(sequence, start, gap_count) ==
    Slice(sequence, 0, start) \o Slice(sequence, start + gap_count, Len(sequence))

\* delete_gaps(sequence): the sequence itself (no gap, or the iterator exhausted
\* with every choice False), or gap_count gaps of a run moved to the end.
delete_gaps(sequence) ==
    {sequence} \cup
    UNION {{RemoveGaps(sequence, start, gap_count) \o Gaps(gap_count) :
               gap_count \in 1..(RunEnd(sequence, start) - start)} :
           start \in RunStarts(sequence)}

\* insert_gaps(sequence): the sequence itself, or gap_count gaps of a run moved
\* before position random.randrange(len(output_list)), which raises when
\* output_list is empty.
insert_gaps(sequence) ==
    {sequence} \cup
    UNION {UNION {LET output_list == RemoveGaps(sequence, start, gap_count)
                  IN IF Len(output_list) = 0
                     THEN {Failed}
                     ELSE {Slice(output_list, 0, position) \o Gaps(gap_count) \o
                               Slice(output_list, position, Len(output_list)) :
                           position \in 0..(Len(output_list) - 1)} :
                  gap_count \in 1..(RunEnd(sequence, start) - start)} :
           start \in RunStarts(sequence)}

\* gap_positions of swap_gaps
GapPositions(sequence) ==
    {i \in 0..(Len(sequence) - 1) : sequence[i + 1] = Gap}

\* The results of swap_gaps with direction 'left' for the gap at gap_pos.
SwapLeft(sequence, gap_pos) ==
    LET start_pos == Least({s \in 0..gap_pos :
                               \A t \in s..gap_pos : sequence[t + 1] = Gap})
        char_counts == IF start_pos = 0 THEN {0} ELSE 1..start_pos
    IN {LET char_start_pos == start_pos - char_count
        IN Slice(sequence, 0, char_start_pos) \o
           Slice(sequence, start_pos, gap_pos + 1) \o
           Slice(sequence, char_start_pos, start_pos) \o
           Slice(sequence, gap_pos + 1, Len(sequence)) : char_count \in char_counts}

\* swap_gaps to the right with the moved characters taken from one position
\* too early: the last gap of the run is copied with them.
SwapRightFromRunEnd(sequence, gap_pos) ==
    LET end_pos == RunEnd(sequence, gap_pos) - 1
        char_counts == IF Len(sequence) - end_pos = 0
                       THEN {0} ELSE 1..(Len(sequence) - end_pos)
    IN {LET char_end_pos == end_pos + char_count
        IN Slice(sequence, 0, gap_pos) \o
           Slice(sequence, end_pos, char_end_pos + 1) \o
           Slice(sequence, gap_pos, end_pos + 1) \o
           Slice(sequence, char_end_pos + 1, Len(sequence)) : char_count \in char_counts}

\* The results of swap_gaps with direction 'right' for the gap at gap_pos.
SwapRight(sequence, gap_pos) ==
    LET end_pos == RunEnd(sequence, gap_pos) - 1
        char_counts == IF Len(sequence) - end_pos = 0
                       THEN {0} ELSE 1..(Len(sequence) - end_pos)
    IN {LET char_end_pos == end_pos + char_count
        IN Slice(sequence, 0, gap_pos) \o
           Slice(sequence, end_pos + 1, char_end_pos + 1) \o
           Slice(sequence, gap_pos, end_pos + 1) \o
           Slice(sequence, char_end_pos + 1, Len(sequence)) : char_count \in char_counts}

\* swap_gaps(sequence)
swap_gaps(sequence) ==
    IF GapPositions(sequence) = {}
    THEN {sequence}
    ELSE UNION {SwapLeft(sequence, gap_pos) \cup SwapRight(sequence, gap_pos) :
                gap_pos \in GapPositions(sequence)}

\* operation_map[chosen_operation](sequence)
Operation(chosen_operation, sequence) ==
    CASE chosen_operation = 1 -> swap_gaps(sequence)
      [] chosen_operation = 2 -> insert_gaps(sequence)
      [] chosen_operation = 3 -> delete_gaps(sequence)

\* next_state(sequence_list): the results its draws can give; a result holding
\* Failed stands for the call raising.
next_state(sequence_list) ==
    UNION {{result \in [1..Len(sequence_list) ->
                          UNION {Operation(operations[i], sequence_list[i]) :
                                 i \in 1..Len(sequence_list)}] :
               \A i \in 1..Len(sequence_list) :
                   result[i] \in Operation(operations[i], sequence_list[i])} :
           operations \in [1..Len(sequence_list) -> 1..3]}

\* ------------------------------------------------------------------ inputs
RECURSIVE Sum(_)
Sum(lens) ==
    IF lens = <<>> THEN 0 ELSE Head(lens) + Sum(Tail(lens))

\* Gene sequences of at most MaxLen genes: zero and repeated genes included.
Chromosomes ==
    UNION {[1..n -> (-MaxGene)..MaxGene] : n \in 0..MaxLen}

\* The chromosome lengths of the generated genomes: at most MaxChroms chromosomes,
\* empty ones included, of at most MaxLen genes together.
Shapes ==
    {lens \in UNION {[1..k -> 0..MaxLen] : k \in 0..MaxChroms} : Sum(lens) <= MaxLen}

\* The genome whose chromosomes have the lengths `lens` and whose genes are `genes`.
Cut(genes, lens) ==
    [k \in 1..Len(lens) |->
        SubSeq(genes, Sum(SubSeq(lens, 1, k - 1)) + 1, Sum(SubSeq(lens, 1, k)))]

\* The genomes of the examples (run_genome_analysis_example.py, demonstrate_validation).
ExampleGenomes ==
    { << <<1, 2, 3>>, <<-4, 5>> >>, << <<1, 2>>, <<2, 3>> >>, << <<1, 0, 3>> >> }

\* The shapes of the genomes given to the analyzer: no empty chromosome beside
\* another chromosome.
AnalyzerShapes ==
    {lens \in Shapes : Len(lens) <= 1 \/ \A k \in 1..Len(lens) : lens[k] > 0}

\* The data model's validity of a chromosome: nonzero genes, no repeated magnitude.
ValidChromosome(chromosome) ==
    /\ \A k \in 1..Len(chromosome) : chromosome[k] # 0
    /\ \A k, m \in 1..Len(chromosome) :
          k # m => Abs(chromosome[k]) # Abs(chromosome[m])

\* The data model's validity of a genome: non-empty, no zero gene, every
\* magnitude at most once genome-wide.
ValidGenome(genome) ==
    genome # <<>> /\ ValidChromosome(FlattenFrom(genome, 0, <<>>))

\* The chromosome of the documented examples of chromosome_to_cycle and
\* cycle_to_chromosome.
ExampleChromosomes ==
    { <<1, -2, 3>> }

\* Node sequences given to cycle_to_chromosome directly: odd lengths and pairs
\* that are no gene's node pair included.
NodeSeqs ==
    UNION {[1..n -> 1..MaxNode] : n \in 0..MaxLen}

\* The genomes of the documented examples of colored_edges.
ExampleGraphGenomes ==
    { << <<1, 2, 3, 4>> >>, << <<1, -2, 3>>, <<4, 5>> >> }

\* The valid genomes given to two_break_on_genome: the generated genomes that
\* satisfy the data model (no empty chromosome beside another chromosome), and
\* the valid genomes of the documented examples.
ValidGenomes ==
    {genome \in {Cut(genes, lens) : <<genes, lens>> \in
                    UNION {{<<x, lens>> : x \in [1..Sum(lens) -> (-MaxGene)..MaxGene]} :
                           lens \in AnalyzerShapes}} \cup ExampleGraphGenomes :
        ValidGenome(genome)}

\* The shapes of the first genome of a comparison: at most MaxGene genes.
CompareShapes ==
    {lens \in Shapes : Sum(lens) <= MaxGene}

\* The second genome of a comparison: empty, or one chromosome of at most MaxGene
\* forward genes, each magnitude at most once.
CompareOthers ==
    {<<>>} \cup
        {<<c>> : c \in {x \in UNION {[1..n -> 1..MaxGene] : n \in 0..MaxGene} :
                            \A k, m \in 1..Len(x) : k # m => x[k] # x[m]}}

\* The genomes compared in the examples (run_genome_analysis_example.py,
\* demonstrate_genome_comparison).
ExamplePair ==
    << << <<1, 2, 3, 4>>, <<5, 6, 7>> >>, << <<1, 2, 4, 3>>, <<5, 6, 7>> >> >>

\* Sequences without gaps of at most MaxSeqLen characters over two letters.
Strings ==
    UNION {[1..n -> {"A", "C"}] : n \in 0..MaxSeqLen}

\* The sequence lists given to the aligner: no sequence, one, or two.
SequenceLists ==
    UNION {[1..n -> Strings] : n \in 0..2}

\* The sequence lists given to simulated annealing.
AnnealLists ==
    {sequence_list \in SequenceLists :
        \A k \in 1..Len(sequence_list) : Len(sequence_list[k]) <= MaxAnnealLen}

Nodes ==
    1..MaxNode

\* Free-standing edge sequences: every sequence of at most MaxNode \div 2 edges
\* over the nodes (a graph on MaxNode gene ends has MaxNode \div 2 edges).
Graphs ==
    UNION {[1..n -> Nodes \X Nodes] : n \in 0..(MaxNode \div 2)}

\* sequence[::-1]
Reversed(sequence) ==
    [k \in 1..Len(sequence) |-> sequence[Len(sequence) + 1 - k]]

\* The edge sequences walked step by step: the free-standing ones, and the
\* graphs of the documented examples as built, in reverse order, and rewritten
\* by a two-break on any four nodes.
WalkGraphs ==
    Graphs \cup
    UNION {{colored_edges(genome), Reversed(colored_edges(genome))} \cup
           {two_break_genome_graph(colored_edges(genome), a, b, c, d) :
               <<a, b, c, d>> \in Nodes \X Nodes \X Nodes \X Nodes} :
           genome \in ExampleGraphGenomes}

\* ------------------------------------------------------------------- state
VARIABLES
    pc,           \* the calls made so far on the pure functions (see each Init)
    chromosome,   \* codec: the chromosome given
    cycle,        \* codec: chromosome_to_cycle's result
    decoded,      \* codec: cycle_to_chromosome's result
    g,            \* builder: the genome given
    graph,        \* the edge sequence built from g, or the one given to the two-break
    rebuilt,      \* reconstructor: graph_to_genome's result
    args,         \* two-break: <<a, b, c, d>>
    broken,       \* two-break: two_break_genome_graph(graph, a, b, c, d)
    restored,     \* two-break: two_break_genome_graph(broken, a, c, b, d)
    given,        \* analyzer: the constructor's argument
    analyzer,     \* analyzer: "unconstructed", "constructed" or "rejected"
    genome,       \* analyzer: self.genome
    genome_type,  \* analyzer: Python type of self.genome, "list" or "tuple"
    history,      \* analyzer: self.history
    raised,       \* what the last call raised, "no" when it returned
    applied,      \* analyzer: the apply_rearrangement calls that returned
    walk,         \* graph_to_genome's locals at the return of the last walk
    other,        \* comparison: the second genome given
    validation,   \* validate_genome's result
    analysis,     \* analyze_fragile_regions' result
    comparison,   \* compare_genomes' result
    sequences,    \* alignment: the sequences given
    alignment,    \* alignment: the current alignment
    score_history,\* annealing: score_history
    iteration,    \* annealing: the loop iterations done
    final_score   \* annealing: the score returned

vars ==
    <<pc, chromosome, cycle, decoded, g, graph, rebuilt, args, broken, restored,
      given, analyzer, genome, genome_type, history, raised, applied, walk,
      other, validation, analysis, comparison,
      sequences, alignment, score_history, iteration, final_score>>

codec_vars == <<chromosome, cycle, decoded>>
graph_vars == <<g, graph, rebuilt>>
break_vars == <<args, broken, restored>>
analyzer_vars == <<given, analyzer, genome, genome_type, history, raised, applied>>
report_vars == <<other, validation, analysis, comparison>>
msa_vars == <<sequences, alignment, score_history, iteration, final_score>>

NoWalk ==
    [genome |-> <<>>, chromosome |-> <<>>, i |-> 0, init |-> 0, end |-> 0, pc |-> "none"]

CodecIdle == chromosome = <<>> /\ cycle = <<>> /\ decoded = <<>>
GraphIdle == g = <<>> /\ graph = <<>> /\ rebuilt = <<>>
BreakIdle == args = <<0, 0, 0, 0>> /\ broken = <<>> /\ restored = <<>>
AnalyzerIdle ==
    /\ given = <<>> /\ analyzer = "unconstructed" /\ genome = <<>>
    /\ genome_type = "list" /\ history = <<>> /\ raised = "no" /\ applied = 0
ReportIdle ==
    other = <<>> /\ validation = <<>> /\ analysis = <<>> /\ comparison = <<>>
MsaIdle ==
    /\ sequences = <<>> /\ alignment = <<>> /\ score_history = <<>>
    /\ iteration = 0 /\ final_score = 0

\* ------------------------------------------------------------------- codec
\* cycle = chromosome_to_cycle(chromosome)
Encode ==
    /\ pc = "chromosome"
    /\ cycle' = chromosome_to_cycle(chromosome)
    /\ pc' = "cycle"
    /\ UNCHANGED <<chromosome, decoded, graph_vars, break_vars, analyzer_vars, walk, report_vars, msa_vars>>

\* decoded = cycle_to_chromosome(cycle)
Decode ==
    /\ pc = "cycle"
    /\ decoded' = cycle_to_chromosome(cycle)
    /\ pc' = "decoded"
    /\ UNCHANGED <<chromosome, cycle, graph_vars, break_vars, analyzer_vars, walk, report_vars, msa_vars>>

\* decoded = cycle_to_chromosome(cycle) for a node sequence given by the caller:
\* the function has no raise statement and indexes nodes below 2 * int(len / 2).
DecodeGiven ==
    /\ pc = "nodes"
    /\ decoded' = cycle_to_chromosome(cycle)
    /\ raised' = "no"
    /\ pc' = "decoded_nodes"
    /\ UNCHANGED <<chromosome, cycle, graph_vars, break_vars, walk, report_vars,
                   given, analyzer, genome, genome_type, history, applied, msa_vars>>

InitCodec ==
    /\ \/ /\ pc = "chromosome"
          /\ chromosome \in Chromosomes \cup ExampleChromosomes /\ cycle = <<>>
       \/ /\ pc = "nodes"
          /\ chromosome = <<>> /\ cycle \in NodeSeqs
    /\ decoded = <<>>
    /\ GraphIdle /\ BreakIdle /\ AnalyzerIdle /\ walk = NoWalk /\ ReportIdle /\ MsaIdle

NextCodec == Encode \/ Decode \/ DecodeGiven

SpecCodec == InitCodec /\ [][NextCodec]_vars

\* ----------------------------------------------------- builder, reconstructor
\* graph = colored_edges(g)
Build ==
    /\ pc = "genome"
    /\ graph' = colored_edges(g)
    /\ pc' = "graph"
    /\ UNCHANGED <<g, rebuilt, codec_vars, break_vars, analyzer_vars, walk, report_vars, msa_vars>>

\* rebuilt = graph_to_genome(graph)
Reconstruct ==
    /\ pc = "graph"
    /\ walk' = GraphWalk(graph)
    /\ rebuilt' = graph_to_genome(graph)
    /\ pc' = "rebuilt"
    /\ UNCHANGED <<g, graph, codec_vars, break_vars, analyzer_vars, report_vars, msa_vars>>

InitGraph ==
    /\ pc = "genome"
    /\ \/ \E lens \in Shapes : \E genes \in [1..Sum(lens) -> (-MaxGene)..MaxGene] :
             g = Cut(genes, lens)
       \/ g \in ExampleGenomes \cup ExampleGraphGenomes
    /\ graph = <<>> /\ rebuilt = <<>>
    /\ CodecIdle /\ BreakIdle /\ AnalyzerIdle /\ walk = NoWalk /\ ReportIdle /\ MsaIdle

NextGraph == Build \/ Reconstruct

SpecGraph == InitGraph /\ [][NextGraph]_vars

\* --------------------------------------------------------------- two-break
\* broken = two_break_genome_graph(graph, a, b, c, d)
TwoBreak ==
    /\ pc = "edges"
    /\ broken' = two_break_genome_graph(graph, args[1], args[2], args[3], args[4])
    /\ pc' = "broken"
    /\ UNCHANGED <<graph_vars, args, restored, codec_vars, analyzer_vars, walk, report_vars, msa_vars>>

\* restored = two_break_genome_graph(broken, a, c, b, d)
TwoBreakBack ==
    /\ pc = "broken"
    /\ restored' = two_break_genome_graph(broken, args[1], args[3], args[2], args[4])
    /\ pc' = "restored"
    /\ UNCHANGED <<graph_vars, args, broken, codec_vars, analyzer_vars, walk, report_vars, msa_vars>>

\* rebuilt = graph_to_genome(broken): with TwoBreak, the pipeline of
\* two_break_on_genome after colored_edges.
ReconstructBroken ==
    /\ pc = "broken"
    /\ walk' = GraphWalk(broken)
    /\ rebuilt' = graph_to_genome(broken)
    /\ pc' = "rebuilt"
    /\ UNCHANGED <<g, graph, break_vars, codec_vars, analyzer_vars, report_vars, msa_vars>>

InitTwoBreak ==
    /\ pc = "edges"
    /\ g = <<>> /\ graph \in Graphs /\ rebuilt = <<>>
    /\ args \in Nodes \X Nodes \X Nodes \X Nodes /\ broken = <<>> /\ restored = <<>>
    /\ CodecIdle /\ AnalyzerIdle /\ walk = NoWalk /\ ReportIdle /\ MsaIdle

NextTwoBreak == TwoBreak \/ TwoBreakBack \/ ReconstructBroken

SpecTwoBreak == InitTwoBreak /\ [][NextTwoBreak]_vars

\* -------------------------------------------------- validation and analysis
\* validation = validate_genome(g)
Validate ==
    /\ pc = "genome"
    /\ validation' = validate_genome(g)
    /\ pc' = "validated"
    /\ UNCHANGED <<graph_vars, codec_vars, break_vars, analyzer_vars, walk,
                   other, analysis, comparison, msa_vars>>

\* analysis = analyze_fragile_regions(g)
Analyze ==
    /\ pc = "genome"
    /\ analysis' = analyze_fragile_regions(g)
    /\ pc' = "analyzed"
    /\ UNCHANGED <<graph_vars, codec_vars, break_vars, analyzer_vars, walk,
                   other, validation, comparison, msa_vars>>

InitAnalysis ==
    /\ pc = "genome"
    /\ \/ \E lens \in Shapes : \E genes \in [1..Sum(lens) -> (-MaxGene)..MaxGene] :
             g = Cut(genes, lens)
       \/ g \in ExampleGenomes
    /\ graph = <<>> /\ rebuilt = <<>>
    /\ CodecIdle /\ BreakIdle /\ AnalyzerIdle /\ walk = NoWalk /\ ReportIdle /\ MsaIdle

NextAnalysis == Validate \/ Analyze

SpecAnalysis == InitAnalysis /\ [][NextAnalysis]_vars

\* -------------------------------------------------------------- comparison
\* comparison = compare_genomes(g, other)
Compare ==
    /\ pc = "genomes"
    /\ \E result \in {compare_genomes(g, other)} :
          IF result.raised # "no"
          THEN raised' = result.raised /\ UNCHANGED comparison
          ELSE raised' = "no" /\ comparison' = result
    /\ pc' = "compared"
    /\ UNCHANGED <<graph_vars, codec_vars, break_vars, walk,
                   given, analyzer, genome, genome_type, history, applied,
                   other, validation, analysis, msa_vars>>

InitCompare ==
    /\ pc = "genomes"
    /\ \/ \E lens \in CompareShapes : \E genes \in [1..Sum(lens) -> (-MaxGene)..MaxGene] :
          \E x \in {Cut(genes, lens)} : \E y \in CompareOthers :
             \/ g = x /\ other = y
             \/ g = y /\ other = x
       \/ g = ExamplePair[1] /\ other = ExamplePair[2]
    /\ graph = <<>> /\ rebuilt = <<>>
    /\ validation = <<>> /\ analysis = <<>> /\ comparison = <<>>
    /\ CodecIdle /\ BreakIdle /\ AnalyzerIdle /\ walk = NoWalk /\ MsaIdle

NextCompare == Compare

SpecCompare == InitCompare /\ [][NextCompare]_vars

\* --------------------------------------------------------------- alignment
\* alignment = initial_state(sequences)
InitialState ==
    /\ pc = "sequences"
    /\ alignment' \in initial_state(sequences)
    /\ pc' = "aligned"
    /\ UNCHANGED <<sequences, score_history, iteration, final_score,
                   graph_vars, codec_vars, break_vars, analyzer_vars, walk, report_vars>>

\* alignment = next_state(alignment)
NextState ==
    /\ pc = "aligned"
    /\ \E result \in next_state(alignment) :
          IF \E i \in 1..Len(result) : result[i] = Failed
          THEN /\ raised' = "ValueError: empty range for randrange()"
               /\ pc' = "failed"
               /\ UNCHANGED alignment
          ELSE /\ alignment' = result
               /\ UNCHANGED <<pc, raised>>
    /\ UNCHANGED <<sequences, score_history, iteration, final_score,
                   graph_vars, codec_vars, break_vars, walk, report_vars,
                   given, analyzer, genome, genome_type, history, applied>>

InitMsa ==
    /\ pc = "sequences"
    /\ sequences \in SequenceLists
    /\ alignment = <<>> /\ score_history = <<>> /\ iteration = 0 /\ final_score = 0
    /\ CodecIdle /\ GraphIdle /\ BreakIdle /\ AnalyzerIdle /\ walk = NoWalk /\ ReportIdle

NextMoves == InitialState \/ NextState

SpecMoves == InitMsa /\ [][NextMoves]_vars

\* simulated_annealing(current_alignment), entered: the score of the given
\* alignment opens score_history.
AnnealStart ==
    /\ pc = "aligned"
    /\ score_history' = <<score_of_alignment(alignment)>>
    /\ iteration' = 0
    /\ pc' = "annealing"
    /\ UNCHANGED <<sequences, alignment, final_score,
                   graph_vars, codec_vars, break_vars, analyzer_vars, walk, report_vars>>

\* One iteration of the while-loop of simulated_annealing, among the first
\* MaxIterations: a better neighbor is taken; an equal one has
\* acceptance_probability 1.0 > random.random() and is taken; a worse one is
\* taken or not, by the draw.  next_state raising ends the call.
AnnealStep ==
    /\ pc = "annealing"
    /\ iteration < MaxIterations
    /\ \E neighbor_alignment \in next_state(alignment) :
          IF \E i \in 1..Len(neighbor_alignment) : neighbor_alignment[i] = Failed
          THEN /\ raised' = "ValueError: empty range for randrange()"
               /\ pc' = "failed"
               /\ UNCHANGED <<alignment, score_history, iteration>>
          ELSE LET current_score == score_of_alignment(alignment)
                   neighbor_score == score_of_alignment(neighbor_alignment)
               IN /\ \E accepted \in IF neighbor_score <= current_score
                                      THEN {TRUE} ELSE BOOLEAN :
                        IF accepted
                        THEN /\ alignment' = neighbor_alignment
                             /\ score_history' = Append(score_history, neighbor_score)
                        ELSE UNCHANGED <<alignment, score_history>>
                  /\ iteration' = iteration + 1
                  /\ UNCHANGED <<pc, raised>>
    /\ UNCHANGED <<sequences, final_score,
                   graph_vars, codec_vars, break_vars, walk, report_vars,
                   given, analyzer, genome, genome_type, history, applied>>

\* return current_alignment, score_of_alignment(current_alignment), score_history
AnnealReturn ==
    /\ pc = "annealing"
    /\ iteration = MaxIterations
    /\ final_score' = score_of_alignment(alignment)
    /\ pc' = "returned"
    /\ UNCHANGED <<sequences, alignment, score_history, iteration,
                   graph_vars, codec_vars, break_vars, analyzer_vars, walk, report_vars>>

NextAnneal == InitialState \/ AnnealStart \/ AnnealStep \/ AnnealReturn

InitAnneal ==
    /\ pc = "sequences"
    /\ sequences \in AnnealLists
    /\ alignment = <<>> /\ score_history = <<>> /\ iteration = 0 /\ final_score = 0
    /\ CodecIdle /\ GraphIdle /\ BreakIdle /\ AnalyzerIdle /\ walk = NoWalk /\ ReportIdle

SpecAnneal == InitAnneal /\ [][NextAnneal]_vars

\* ------------------------------------------------- graph_to_genome, stepwise
\* graph_to_genome(graph) entered: the early return on an empty graph, or the
\* locals set before the while-loop.
WalkEnter ==
    /\ pc = "edges"
    /\ IF graph = <<>>
       THEN walk' = GraphWalk(graph) /\ pc' = "walked"
       ELSE walk' = WalkStart(graph) /\ pc' = "walking"
    /\ UNCHANGED <<graph_vars, codec_vars, break_vars, analyzer_vars, report_vars, msa_vars>>

\* One iteration of the while-loop.
WalkIteration ==
    /\ pc = "walking"
    /\ walk.pc = "loop"
    /\ walk' = WalkStep(graph, walk)
    /\ UNCHANGED <<pc, graph_vars, codec_vars, break_vars, analyzer_vars, report_vars, msa_vars>>

\* return tuple(genome)
WalkReturn ==
    /\ pc = "walking"
    /\ walk.pc # "loop"
    /\ rebuilt' = walk.genome
    /\ pc' = "walked"
    /\ UNCHANGED <<g, graph, walk, codec_vars, break_vars, analyzer_vars, report_vars, msa_vars>>

InitWalk ==
    /\ pc = "edges"
    /\ g = <<>> /\ graph \in WalkGraphs /\ rebuilt = <<>>
    /\ CodecIdle /\ BreakIdle /\ AnalyzerIdle /\ walk = NoWalk /\ ReportIdle /\ MsaIdle

NextWalk == WalkEnter \/ WalkIteration \/ WalkReturn

\* The call runs on one thread and waits for nothing: a step that can be taken
\* is taken.
SpecWalk == InitWalk /\ [][NextWalk]_vars /\ WF_vars(NextWalk)

\* ------------------------------------------------------ two_break_on_genome
\* rebuilt = two_break_on_genome(g, a, b, c, d), with its intermediate values.
BreakGenome ==
    /\ pc = "genome_args"
    /\ graph' = colored_edges(g)
    /\ broken' = two_break_genome_graph(graph', args[1], args[2], args[3], args[4])
    /\ walk' = GraphWalk(broken')
    /\ rebuilt' = two_break_on_genome(g, args[1], args[2], args[3], args[4])
    /\ pc' = "rearranged"
    /\ UNCHANGED <<g, args, restored, codec_vars, analyzer_vars, report_vars, msa_vars>>

InitGenomeBreak ==
    /\ pc = "genome_args"
    /\ g \in ValidGenomes /\ graph = <<>> /\ rebuilt = <<>>
    /\ args \in Nodes \X Nodes \X Nodes \X Nodes /\ broken = <<>> /\ restored = <<>>
    /\ CodecIdle /\ AnalyzerIdle /\ walk = NoWalk /\ ReportIdle /\ MsaIdle

NextGenomeBreak == BreakGenome

SpecGenomeBreak == InitGenomeBreak /\ [][NextGenomeBreak]_vars

\* ---------------------------------------------------------- GenomeAnalyzer
\* GenomeAnalyzer.__init__ without its validation gate.
ConstructUngated ==
    /\ analyzer = "unconstructed"
    /\ genome' = given
    /\ genome_type' = "list"
    /\ history' = <<>>
    /\ raised' = "no"
    /\ analyzer' = "constructed"
    /\ UNCHANGED <<pc, given, applied, codec_vars, graph_vars, break_vars, walk, report_vars, msa_vars>>

\* GenomeAnalyzer.__init__(given)
Construct ==
    /\ analyzer = "unconstructed"
    /\ IF ~validate_genome(given).valid
       THEN /\ raised' = "ValueError: Invalid genome"
            /\ analyzer' = "rejected"
            /\ UNCHANGED <<genome, genome_type, history>>
       ELSE /\ genome' = given
            /\ genome_type' = "list"
            /\ history' = <<>>
            /\ raised' = "no"
            /\ analyzer' = "constructed"
    /\ UNCHANGED <<pc, given, applied, codec_vars, graph_vars, break_vars, walk, report_vars, msa_vars>>

\* Rearrange with the history record appended before perform_rearrangement is
\* called, so that a call that raises has already written it.
RearrangeRecordFirst(rearrangement_type, a, b, c, d) ==
    \E result \in {perform_rearrangement(genome, rearrangement_type, a, b, c, d)} :
       /\ history' = Append(history,
                         [operation |-> rearrangement_type,
                          parameters |-> [a |-> a, b |-> b, c |-> c, d |-> d],
                          old_genome |-> genome])
       /\ raised' = result.raised
       /\ IF result.raised # "no"
          THEN UNCHANGED <<genome, genome_type>>
          ELSE genome' = result.rearranged_genome /\ genome_type' = "tuple"

\* Rearrange with old_genome bound to self.genome instead of a copy and read
\* after self.genome was replaced.
RearrangeOldAfter(rearrangement_type, a, b, c, d) ==
    \E result \in {perform_rearrangement(genome, rearrangement_type, a, b, c, d)} :
       IF result.raised # "no"
       THEN /\ raised' = result.raised
            /\ UNCHANGED <<genome, genome_type, history>>
       ELSE /\ genome' = result.rearranged_genome
            /\ genome_type' = "tuple"
            /\ history' = Append(history,
                              [operation |-> rearrangement_type,
                               parameters |-> [a |-> a, b |-> b, c |-> c, d |-> d],
                               old_genome |-> result.rearranged_genome,
                               new_genome |-> result.rearranged_genome,
                               info |-> result.rearrangement_info])
            /\ raised' = "no"

\* Rearrange with the result recorded but self.genome left as it was.
RearrangeKeepsGenome(rearrangement_type, a, b, c, d) ==
    \E old_genome \in {genome} :
    \E result \in {perform_rearrangement(genome, rearrangement_type, a, b, c, d)} :
       IF result.raised # "no"
       THEN /\ raised' = result.raised
            /\ UNCHANGED <<genome, genome_type, history>>
       ELSE /\ UNCHANGED <<genome, genome_type>>
            /\ history' = Append(history,
                              [operation |-> rearrangement_type,
                               parameters |-> [a |-> a, b |-> b, c |-> c, d |-> d],
                               old_genome |-> old_genome,
                               new_genome |-> result.rearranged_genome,
                               info |-> result.rearrangement_info])
            /\ raised' = "no"

\* The body of GenomeAnalyzer.apply_rearrangement(rearrangement_type, a=, b=, c=, d=)
\* once self.genome.copy() has returned.
Rearrange(rearrangement_type, a, b, c, d) ==
    \E old_genome \in {genome} :
    \E result \in {perform_rearrangement(genome, rearrangement_type, a, b, c, d)} :
       IF result.raised # "no"
       THEN /\ raised' = result.raised
            /\ UNCHANGED <<genome, genome_type, history>>
       ELSE /\ genome' = result.rearranged_genome
            /\ genome_type' = "tuple"
            /\ history' = Append(history,
                              [operation |-> rearrangement_type,
                               parameters |-> [a |-> a, b |-> b, c |-> c, d |-> d],
                               old_genome |-> old_genome,
                               new_genome |-> result.rearranged_genome,
                               info |-> result.rearrangement_info])
            /\ raised' = "no"

\* The calls made on the analyzer: <<rearrangement_type, a, b, c, d>>. A two_break
\* with every node argument passed, and calls of either kind with any of the
\* arguments left out.
Calls ==
    ({"two_break"} \X Nodes \X Nodes \X Nodes \X Nodes)
        \cup ({"two_break", "inversion"} \X {None, 1} \X {None, 2} \X {None, 3} \X {None, 4})

\* get_statistics()['rearrangement_count']
rearrangement_count ==
    Len(history)

\* GenomeAnalyzer.apply_rearrangement: a tuple has no copy(), so the call on a
\* genome that graph_to_genome returned raises before it reads its arguments.
apply_rearrangement ==
    /\ analyzer = "constructed"
    /\ IF genome_type = "tuple"
       THEN /\ raised' = "AttributeError: 'tuple' object has no attribute 'copy'"
            /\ UNCHANGED <<genome, genome_type, history>>
       ELSE \E call \in Calls :
                Rearrange(call[1], call[2], call[3], call[4], call[5])
    /\ applied' = IF raised' = "no" THEN applied + 1 ELSE applied
    /\ UNCHANGED <<pc, given, analyzer, codec_vars, graph_vars, break_vars, walk, report_vars, msa_vars>>

Init ==
    /\ pc = "analyzer"
    /\ \/ \E lens \in AnalyzerShapes : \E genes \in [1..Sum(lens) -> (-MaxGene)..MaxGene] :
             given = Cut(genes, lens)
       \/ given \in ExampleGenomes
    /\ analyzer = "unconstructed" /\ genome = <<>>
    /\ genome_type = "list" /\ history = <<>> /\ raised = "no" /\ applied = 0
    /\ CodecIdle /\ GraphIdle /\ BreakIdle /\ walk = NoWalk /\ ReportIdle /\ MsaIdle

Next == Construct \/ apply_rearrangement

Spec == Init /\ [][Next]_vars

\* ============================================================== properties
\* The two-break arguments of the state.
ArgsDistinct ==
    Cardinality({args[1], args[2], args[3], args[4]}) = 4

\* The edge matches one of the four patterns of the two-break with the state's arguments.
Matched(edge) ==
    edge \in {<<args[1], args[2]>>, <<args[2], args[1]>>,
              <<args[3], args[4]>>, <<args[4], args[3]>>}

\* C1: decoding the cycle of a valid chromosome (nonzero genes, no repeated
\* magnitude) gives the chromosome back.
C1_CodecRoundTrip ==
    (pc = "decoded" /\ ValidChromosome(chromosome)) => decoded = chromosome

\* A valid chromosome with a forward and a reverse gene has been encoded and decoded.
C1_Witness ==
    /\ pc = "decoded" /\ ValidChromosome(chromosome)
    /\ \E k, m \in 1..Len(chromosome) : chromosome[k] > 0 /\ chromosome[m] < 0

\* C2: for a valid genome whose chromosomes are all non-empty,
\* graph_to_genome(colored_edges(g)) has the same chromosomes as g, in the same
\* order, with the same genes and signs.
C2_GraphRoundTrip ==
    (/\ pc = "rebuilt"
     /\ ValidGenome(g)
     /\ \A k \in 1..Len(g) : g[k] # <<>>) => rebuilt = g

\* A valid genome of two chromosomes with a reverse gene has been built and rebuilt.
C2_Witness ==
    /\ pc = "rebuilt" /\ ValidGenome(g)
    /\ Len(g) = 2 /\ g[1] # <<>> /\ g[2] # <<>>
    /\ \E k \in 1..Len(g[1]) : g[1][k] < 0

\* C3: when the graph holds (a,b) and (c,d), with a, b, c, d pairwise distinct,
\* the two-break result holds (a,c) where (a,b) was and (b,d) where (c,d) was.
C3_ReplacesWithAcBd ==
    (/\ pc = "broken"
     /\ ArgsDistinct
     /\ \E k \in 1..Len(graph) : graph[k] = <<args[1], args[2]>>
     /\ \E k \in 1..Len(graph) : graph[k] = <<args[3], args[4]>>)
    => /\ Len(broken) = Len(graph)
       /\ \A k \in 1..Len(graph) :
             /\ graph[k] = <<args[1], args[2]>> => broken[k] = <<args[1], args[3]>>
             /\ graph[k] = <<args[3], args[4]>> => broken[k] = <<args[2], args[4]>>

\* C4: the two-break result has the length of the input, and every position whose
\* edge is none of (a,b), (b,a), (c,d), (d,c) holds the input's edge; with no
\* matching edge the result is the input.
C4_OtherEdgesUntouched ==
    pc = "broken" =>
        /\ Len(broken) = Len(graph)
        /\ \A k \in 1..Len(graph) : ~Matched(graph[k]) => broken[k] = graph[k]
        /\ (\A k \in 1..Len(graph) : ~Matched(graph[k])) => broken = graph

\* A two-break has rewritten one edge of a graph and left another one alone.
C4_Witness ==
    /\ pc = "broken" /\ Len(graph) = 2
    /\ \E k, m \in 1..Len(graph) :
          /\ Matched(graph[k]) /\ broken[k] # graph[k]
          /\ ~Matched(graph[m])

\* C5 as stated, for all nodes a, b, c, d: after the two-break (a,b,c,d) and then
\* the two-break (a,c,b,d), every position the first call rewrote holds its
\* original edge.
C5_InverseForAllNodes ==
    pc = "restored" =>
        \A k \in 1..Len(graph) : Matched(graph[k]) => restored[k] = graph[k]

\* C5 amended, for nodes with a # c and b # d (pairwise distinct nodes among
\* them): after the two-break (a,b,c,d) and then the two-break (a,c,b,d), every
\* position the first call rewrote holds its original edge.
C5_InverseForDistinctEnds ==
    (pc = "restored" /\ args[1] # args[3] /\ args[2] # args[4]) =>
        \A k \in 1..Len(graph) : Matched(graph[k]) => restored[k] = graph[k]

\* Both edges (a,b) and (c,d) of a graph were rewritten and restored.
C5_Witness ==
    /\ pc = "restored" /\ ArgsDistinct
    /\ \E k, m \in 1..Len(graph) :
          /\ graph[k] = <<args[1], args[2]>> /\ broken[k] # graph[k]
          /\ graph[m] = <<args[3], args[4]>> /\ broken[m] # graph[m]
    /\ restored = graph

\* C6: graph_to_genome returns no genome from a walk whose cursor ran past the
\* edge sequence with a chromosome still open (it fails instead).
C6_UnclosedWalkFails ==
    pc = "rebuilt" => walk.pc # "exhausted"

\* C7: the genome of a constructed analyzer passes validate_genome after every
\* sequence of apply_rearrangement calls.
C7_GenomeStaysValid ==
    analyzer = "constructed" => validate_genome(genome).valid

\* C8: an apply_rearrangement call that raises leaves self.genome and
\* self.history as they were.
C8_FailureBeforeMutation ==
    [][(analyzer = "constructed" /\ raised' # "no")
          => (genome' = genome /\ genome_type' = genome_type /\ history' = history)]_vars

\* A two_break call without all of a, b, c, d has failed on a fresh analyzer.
C8_Witness ==
    /\ analyzer = "constructed"
    /\ raised = "ValueError: requires parameters a, b, c, d"
    /\ genome = given /\ history = <<>>

\* C9: a successful apply_rearrangement replaces the genome with
\* two_break_on_genome of the previous genome and appends exactly one record,
\* holding the genome before and the genome after; no step changes or removes a
\* record already in the history.
C9_SuccessAppendsOneRecord ==
    [][/\ Len(history') >= Len(history)
       /\ SubSeq(history', 1, Len(history)) = history
       /\ (analyzer = "constructed" /\ raised' = "no") =>
             /\ Len(history') = Len(history) + 1
             /\ history'[Len(history')].operation = "two_break"
             /\ genome' = two_break_on_genome(genome,
                              history'[Len(history')].parameters.a,
                              history'[Len(history')].parameters.b,
                              history'[Len(history')].parameters.c,
                              history'[Len(history')].parameters.d)
             /\ history'[Len(history')].old_genome = genome
             /\ history'[Len(history')].new_genome = genome']_vars

\* A rearrangement has succeeded and changed the genome.
C9_Witness ==
    /\ analyzer = "constructed" /\ raised = "no"
    /\ Len(history) = 1 /\ genome # given
    /\ history[1].old_genome = given /\ genome # <<>>

\* C10: the constructor raises, and sets neither genome nor history, exactly when
\* validate_genome reports the argument invalid; [[1,2],[2,3]] and [[1,0,3]] are
\* rejected, [[1,2,3],[-4,5]] is accepted with an empty history.
C10_ConstructorGate ==
    /\ analyzer = "rejected" =>
          /\ ~validate_genome(given).valid
          /\ raised = "ValueError: Invalid genome"
          /\ genome = <<>> /\ history = <<>>
    /\ analyzer = "constructed" => validate_genome(given).valid
    /\ (analyzer = "constructed" /\ genome_type = "list") =>
          (genome = given /\ history = <<>>)
    /\ given \in {<< <<1, 2>>, <<2, 3>> >>, << <<1, 0, 3>> >>} => analyzer # "constructed"
    /\ given = << <<1, 2, 3>>, <<-4, 5>> >> => analyzer # "rejected"

\* The constructor has rejected [[1,2],[2,3]].
C10_Witness ==
    analyzer = "rejected" /\ given = << <<1, 2>>, <<2, 3>> >>

\* The positions <<chromosome, gene>> of a genome (1-based).
Positions(x) ==
    UNION {{<<k, j>> : j \in 1..Len(x[k])} : k \in 1..Len(x)}

\* C11: on a non-empty genome validate_genome reports valid exactly when no gene
\* is zero and no two genes, in one chromosome or in two, have the same
\* magnitude; it warns of exactly the empty chromosomes, which do not enter the
\* verdict; [[1,0,3]] is invalid with a zero-gene error and [[1,2],[2,3]] with a
\* duplicate-gene error.
C11_ValidIffNoZeroNoRepeat ==
    (pc = "validated" /\ g # <<>>) =>
        /\ validation.valid <=>
              /\ \A p \in Positions(g) : g[p[1]][p[2]] # 0
              /\ \A p, q \in Positions(g) :
                    p # q => Abs(g[p[1]][p[2]]) # Abs(g[q[1]][q[2]])
        /\ validation.valid <=> validation.errors = <<>>
        /\ {validation.warnings[k] + 1 : k \in 1..Len(validation.warnings)}
              = {k \in 1..Len(g) : g[k] = <<>>}
        /\ g = << <<1, 0, 3>> >> =>
              /\ ~validation.valid
              /\ \E k \in 1..Len(validation.errors) :
                    validation.errors[k].kind = "Gene with value 0"
        /\ g = << <<1, 2>>, <<2, 3>> >> =>
              /\ ~validation.valid
              /\ \E k \in 1..Len(validation.errors) :
                    validation.errors[k].kind = "Duplicate gene"

\* A genome with genes of both signs and an empty chromosome was found valid,
\* with a warning.
C11_Witness ==
    /\ pc = "validated" /\ validation.valid
    /\ Len(validation.warnings) > 0
    /\ \E p, q \in Positions(g) : g[p[1]][p[2]] > 0 /\ g[q[1]][q[2]] < 0

\* C12: colored_edges(g) has as many edges as g has genes, for every genome,
\* empty chromosomes included.
C12_EdgeCount ==
    pc \in {"graph", "rebuilt"} =>
        Len(graph) = Sum([k \in 1..Len(g) |-> Len(g[k])])

\* The graph of a genome with an empty chromosome and one of two or more genes
\* was built.
C12_Witness ==
    /\ pc = "graph" /\ Len(g) >= 2
    /\ \E k, m \in 1..Len(g) : g[k] = <<>> /\ Len(g[m]) >= 2
    /\ Len(graph) >= 2

\* C13: compare_genomes returns a result for every pair of genomes, and for two
\* genomes without edges the similarity ratio it returns is 0.
C13_CompareNeverFails ==
    pc = "compared" =>
        /\ raised = "no"
        /\ (colored_edges(g) = <<>> /\ colored_edges(other) = <<>>) =>
              comparison.similarity_ratio.num = 0

\* C14: with A and B the edge sets of the two graphs, compare_genomes returns
\* whenever one of them is non-empty, and what it returns has common_edges
\* A \cap B, unique edges A \ B and B \ A, difference_count |A \ B| + |B \ A| and
\* the ratio |A \cap B| / max(|A|, |B|); the ratio is 1 exactly when A = B, and
\* otherwise it is below 1 with a nonzero difference_count, as for
\* [[1,2,3,4],[5,6,7]] against [[1,2,4,3],[5,6,7]].
C14_EdgeSetComparison ==
    pc = "compared" =>
        LET A == {colored_edges(g)[k] : k \in 1..Len(colored_edges(g))}
            B == {colored_edges(other)[k] : k \in 1..Len(colored_edges(other))}
        IN /\ (A # {} \/ B # {}) => raised = "no"
           /\ raised = "no" =>
                 /\ comparison.common_edges = A \cap B
                 /\ comparison.genome1_unique_edges = A \ B
                 /\ comparison.genome2_unique_edges = B \ A
                 /\ comparison.difference_count
                       = Cardinality(A \ B) + Cardinality(B \ A)
                 /\ comparison.similarity_ratio.num = Cardinality(A \cap B)
                 /\ comparison.similarity_ratio.den
                       = IF Cardinality(A) > Cardinality(B)
                         THEN Cardinality(A) ELSE Cardinality(B)
                 /\ (comparison.similarity_ratio.num = comparison.similarity_ratio.den)
                       <=> A = B
                 /\ A # B =>
                       /\ comparison.similarity_ratio.num < comparison.similarity_ratio.den
                       /\ comparison.difference_count > 0
           /\ <<g, other>> = ExamplePair =>
                 /\ raised = "no"
                 /\ comparison.similarity_ratio.num < comparison.similarity_ratio.den
                 /\ comparison.difference_count > 0

\* The two example genomes were compared: they share edges and each has edges
\* of its own.
C14_Witness ==
    /\ pc = "compared" /\ raised = "no" /\ <<g, other>> = ExamplePair
    /\ comparison.common_edges # {}
    /\ comparison.genome1_unique_edges # {}
    /\ comparison.genome2_unique_edges # {}

\* The node pair of a gene: (2k-1, 2k) or (2k, 2k-1) for some k >= 1.
GenePair(x, y) ==
    \E k \in 1..(x + y) : <<x, y>> \in {<<2 * k - 1, 2 * k>>, <<2 * k, 2 * k - 1>>}

\* A node sequence of odd length, or with a pair that is no gene's node pair.
Malformed(nodes) ==
    \/ Len(nodes) % 2 = 1
    \/ \E i \in 1..(Len(nodes) \div 2) : ~GenePair(nodes[2 * i - 1], nodes[2 * i])

\* C15: cycle_to_chromosome raises on a node sequence of odd length or with a
\* pair that chromosome_to_cycle cannot produce; it returns no chromosome for it.
C15_MalformedCycleFails ==
    (pc = "decoded_nodes" /\ Malformed(cycle)) => raised # "no"

\* C17: chromosome_to_cycle(chromosome) has 2 * len(chromosome) nodes; the gene at
\* index k contributes, at the positions 2k and 2k + 1 (0-based), the pair
\* (2g - 1, 2g) when it is the forward gene g > 0 and (2g, 2g - 1) when it is the
\* reverse gene -g; chromosome_to_cycle([1,-2,3]) = [1,2,4,3,5,6].
C17_GeneNodePairs ==
    pc \in {"cycle", "decoded"} =>
        /\ Len(cycle) = 2 * Len(chromosome)
        /\ \A k \in 1..Len(chromosome) :
              /\ chromosome[k] > 0 =>
                    /\ cycle[2 * k - 1] = 2 * chromosome[k] - 1
                    /\ cycle[2 * k] = 2 * chromosome[k]
              /\ chromosome[k] < 0 =>
                    /\ cycle[2 * k - 1] = 2 * (-chromosome[k])
                    /\ cycle[2 * k] = 2 * (-chromosome[k]) - 1
        /\ chromosome = <<1, -2, 3>> => cycle = <<1, 2, 4, 3, 5, 6>>

\* The example chromosome [1,-2,3] was encoded.
C17_Witness ==
    pc = "cycle" /\ chromosome = <<1, -2, 3>> /\ Len(cycle) = 6

OddChromosomes(x) ==
    {k \in 1..Len(x) : Len(x[k]) % 2 = 1}

\* The fragile_regions list holds one entry for each chromosome of odd length and
\* no other, in chromosome order, each with the chromosome's index (0-based),
\* length and genes.
FlagsOddChromosomes(x, fragile_regions) ==
    /\ Len(fragile_regions) = Cardinality(OddChromosomes(x))
    /\ {fragile_regions[n].chromosome + 1 : n \in 1..Len(fragile_regions)}
          = OddChromosomes(x)
    /\ \A n \in 1..Len(fragile_regions) :
          /\ fragile_regions[n].length = Len(x[fragile_regions[n].chromosome + 1])
          /\ fragile_regions[n].genes = x[fragile_regions[n].chromosome + 1]
          /\ \A m \in 1..(n - 1) :
                fragile_regions[m].chromosome < fragile_regions[n].chromosome

\* C19 as stated, for every genome: analyze_fragile_regions does not fail, flags
\* exactly the chromosomes of odd length, and its statistics hold a
\* fragile_regions_count equal to their number.
C19_CountForEveryGenome ==
    pc = "analyzed" =>
        /\ raised = "no"
        /\ FlagsOddChromosomes(g, analysis.fragile_regions)
        /\ "fragile_regions_count" \in DOMAIN analysis.statistics
        /\ analysis.statistics.fragile_regions_count = Cardinality(OddChromosomes(g))

\* C19 amended: analyze_fragile_regions does not fail and flags exactly the
\* chromosomes of odd length; for a non-empty genome its statistics hold a
\* fragile_regions_count equal to their number, and for the empty genome the
\* statistics are empty.
C19_CountForNonEmptyGenome ==
    pc = "analyzed" =>
        /\ raised = "no"
        /\ FlagsOddChromosomes(g, analysis.fragile_regions)
        /\ g # <<>> =>
              analysis.statistics.fragile_regions_count = Cardinality(OddChromosomes(g))
        /\ g = <<>> => DOMAIN analysis.statistics = {}

\* A genome with a chromosome of one gene beside an empty or two-gene chromosome
\* was analysed: one fragile region.
C19_Witness ==
    /\ pc = "analyzed" /\ Len(g) >= 2
    /\ \E k, m \in 1..Len(g) : Len(g[k]) = 1 /\ Len(g[m]) \in {0, 2}
    /\ Len(analysis.fragile_regions) = 1
    /\ analysis.statistics.fragile_regions_count = 1

\* sequence.replace('-', '')
Degap(sequence) ==
    SelectSeq(sequence, LAMBDA char : char # Gap)

C21_FinalScoreIsBest ==
    pc = "returned" =>
        \A k \in 1..Len(score_history) : final_score <= score_history[k]

\* C22: in every state of an analyzer constructed from a valid genome, those after successful
\* rearrangements included, apply_rearrangement('two_break', a, b, c, d) with all
\* four parameters present succeeds (and so appends one history record).
C22_TwoBreakAlwaysSucceeds ==
    (analyzer = "constructed" /\ ValidGenome(given)) =>
        /\ genome_type = "list"
        /\ \A a, b, c, d \in Nodes :
              perform_rearrangement(genome, "two_break", a, b, c, d).raised = "no"

\* C23: graph_to_genome terminates on every edge sequence, and its cursor i
\* strictly increases on every iteration of its loop.
C23_CursorIncreasesEveryIteration ==
    /\ [][(pc = "walking" /\ walk.pc = "loop") => walk'.i > walk.i]_vars
    /\ <>(pc = "walked")

\* C23, amended: graph_to_genome terminates on every edge sequence; every
\* iteration of its loop either moves the cursor i forward by one or leaves the
\* loop (the iteration that closes a chromosome at the last edge leaves it with
\* i unchanged), and i never passes the length of the edge sequence.
C23_CursorIncreasesOrLoopEnds ==
    /\ [][(pc = "walking" /\ walk.pc = "loop") =>
             \/ walk'.i = walk.i + 1
             \/ walk'.i = walk.i /\ walk'.pc = "closed"]_vars
    /\ [](walk.i <= Len(graph))
    /\ <>(pc = "walked")

\* A walk has returned from an edge sequence of at least four edges that no
\* genome gives, with a chromosome still open when the cursor reached the end.
C23_Witness ==
    /\ pc = "walked" /\ Len(graph) >= 4
    /\ walk.pc = "exhausted" /\ walk.i = Len(graph)
    /\ \A example \in ExampleGraphGenomes : graph # colored_edges(example)

GeneEnds(genes) ==
    UNION {{2 * Abs(genes[k]) - 1, 2 * Abs(genes[k])} : k \in 1..Len(genes)}

====
